---- MODULE Spec2Model ----
(***************************************************************************)
(* State-machine model of the school attendance service (src/app/main.py,  *)
(* src/app/models.py, src/app/schemas.py).  The store is the two tables    *)
(* `users` and `attendance`; every HTTP handler is one action, except      *)
(* mark_attendance, whose reads (lines 183-223) and whose insert+commit    *)
(* (lines 225-228) are separate steps so that requests handled by          *)
(* independent workers can interleave at the storage layer.                *)
(***************************************************************************)
EXTENDS Integers, Sequences, FiniteSets, Bags, TLC

VARIABLES
    users,          \* rows of table "users"
    nextUserId,     \* AUTO_INCREMENT counter of users.id
    attendance,     \* rows of table "attendance"
    nextAttId,      \* AUTO_INCREMENT counter of attendance.id
    tokens,         \* bearer tokens handed out by login
    now,            \* the server's local clock: [day, tod]
    inflight,       \* bag of mark_attendance requests between line 223 and 225
    registering,    \* bag of register requests between line 102 and 108
    deleting,       \* bag of delete_staff requests between line 377 and 380
    resp            \* the response of the request that completed last

vars == <<users, nextUserId, attendance, nextAttId, tokens, now, inflight,
          registering, deleting, resp>>

store == <<users, nextUserId, attendance, nextAttId>>

-----------------------------------------------------------------------------
(* Bounds of the model *)

MaxUserId == 2
MaxAttId == 2
MaxDay == 2
MaxRegistered == 2

\* the workers that handle requests side by side
Workers == {"w1", "w2"}

-----------------------------------------------------------------------------
(* Values *)

None == "None"

\* the result of a query that matches no row
NoRow == [id |-> 0]

\* the body of a response that carries none beside its detail
NoBody == [empty |-> TRUE]

AdminEmail == "admin@school.com"
AdminPassword == "Admin@123"

Emails == {AdminEmail, "a@school.com"}
RegistryEmails == Emails \cup {"b@school.com"}
Passwords == {AdminPassword, "pw"}
RegisterPasswords == {"pw"}

\* role strings of the register payload, as tuples of characters
Str_staff == <<"s", "t", "a", "f", "f">>
Str_admin == <<"a", "d", "m", "i", "n">>
RoleInputs == {Str_staff, Str_admin, <<"A", "d", "m", "i", "n">>,
               <<"A", "D", "M", "I", "N">>, <<"h", "e", "a", "d">>}

\* times of day in seconds after midnight
late_time == 27000
close_time == 28800
TimesOfDay == {27000, 28800, 28801}
FirstTimeOfDay == CHOOSE t \in TimesOfDay : \A x \in TimesOfDay : t <= x

\* client hosts: IP version and address as an integer
Host_127_0_0_1 == [version |-> 4, addr |-> 2130706433]
Host_127_0_0_2 == [version |-> 4, addr |-> 2130706434]
Host_v6_loopback == [version |-> 6, addr |-> 1]
Hosts == {Host_127_0_0_1, Host_127_0_0_2, Host_v6_loopback}

allowed_network == [version |-> 4, first |-> 2130706433, last |-> 2130706433]

\* the network taken as a /8
InNetwork_Slash8(host, net) ==
    /\ host.version = net.version
    /\ host.addr \div 16777216 = net.first \div 16777216

InNetwork(host, net) ==
    /\ host.version = net.version
    /\ net.first <= host.addr
    /\ host.addr <= net.last

-----------------------------------------------------------------------------
(* str.lower() on the characters the payloads use *)

UpperToLower ==
    [A |-> "a", B |-> "b", C |-> "c", D |-> "d", E |-> "e", F |-> "f",
     G |-> "g", H |-> "h", I |-> "i", J |-> "j", K |-> "k", L |-> "l",
     M |-> "m", N |-> "n", O |-> "o", P |-> "p", Q |-> "q", R |-> "r",
     S |-> "s", T |-> "t", U |-> "u", V |-> "v", W |-> "w", X |-> "x",
     Y |-> "y", Z |-> "z"]

LowerChar(c) == IF c \in DOMAIN UpperToLower THEN UpperToLower[c] ELSE c

Lower(s) == [i \in DOMAIN s |-> LowerChar(s[i])]

-----------------------------------------------------------------------------
(* app.auth: hashing and token issue *)

hash_password(p) == <<"hash", p>>

verify_password(p, digest) == digest = hash_password(p)

create_access_token(data) ==
    [kind |-> "valid", sub |-> data.sub, role |-> data.role]

\* a token jwt.decode rejects (bad signature, expired or malformed), and a
\* well-signed token without a subject claim
BadCredentials ==
    {[kind |-> "invalid", sub |-> AdminEmail, role |-> "admin"],
     [kind |-> "valid", sub |-> None, role |-> "admin"]}

Credentials == tokens \cup BadCredentials

-----------------------------------------------------------------------------
(* The ORM mapping of class User *)

UserColumns == {"id", "email", "password", "role"}

\* what a commit writes back for a loaded object: its mapped columns only
Flush(obj) == [c \in UserColumns |-> obj[c]]

StoredResetToken(u) ==
    IF "reset_token" \in DOMAIN u THEN u.reset_token ELSE None

-----------------------------------------------------------------------------
(* Queries *)

\* .first() of a query that matches at most the rows in S
First(S) == IF S = {} THEN NoRow ELSE CHOOSE u \in S : \A v \in S : u.id <= v.id

UserByEmail(email) == First({u \in users : u.email = email})

StaffUsers == {u \in users : u.role = "staff"}

RecordsOf(user_id) == {a \in attendance : a.user_id = user_id}

RecordsOn(day) == {a \in attendance : a.date = day}

RECURSIVE OrderById(_)
OrderById(S) ==
    IF S = {} THEN <<>>
    ELSE LET x == CHOOSE y \in S : \A z \in S : y.id <= z.id
         IN <<x>> \o OrderById(S \ {x})

RECURSIVE OrderByDateDesc(_)
OrderByDateDesc(S) ==
    IF S = {} THEN <<>>
    ELSE LET x == CHOOSE y \in S : \A z \in S :
                      \/ y.date > z.date
                      \/ (y.date = z.date /\ y.id <= z.id)
         IN <<x>> \o OrderByDateDesc(S \ {x})

-----------------------------------------------------------------------------
(* Responses *)

Response(op, code, detail, body) ==
    [op |-> op, code |-> code, detail |-> detail, body |-> body]

HTTPException(op, code, detail) == Response(op, code, detail, NoBody)

\* an exception no handler catches: the framework answers 500
InternalServerError(op) ==
    Response(op, 500, "Internal Server Error", NoBody)

NoResponse == Response("none", 0, None, NoBody)

credentials_exception(op) ==
    HTTPException(op, 401, "Could not validate credentials")

-----------------------------------------------------------------------------
(* get_current_user *)

\* the claims read without verifying the token
jwt_decode_ok_Unverified(cred) == TRUE

jwt_decode_ok(cred) == cred.kind = "valid"

\* the user taken from the token's claims instead of the users table
get_current_user_FromClaims(cred) ==
    IF ~jwt_decode_ok(cred) THEN NoRow
    ELSE IF cred.sub = None THEN NoRow
    ELSE [id |-> 0, email |-> cred.sub, role |-> cred.role]

get_current_user(cred) ==
    IF ~jwt_decode_ok(cred) THEN NoRow
    ELSE IF cred.sub = None THEN NoRow
    ELSE UserByEmail(cred.sub)

\* the role checks at the head of the handlers
NotStaff(user) == user.role # "staff"

\* the staff check pasted into an admin handler
NotAdmin_Pasted(user) == user.role # "staff"

NotAdmin(user) == user.role # "admin"

-----------------------------------------------------------------------------
(* Startup *)

create_default_admin(rows) ==
    IF \E u \in rows : u.role = "admin" THEN rows
    ELSE rows \cup {[id |-> 1, email |-> AdminEmail,
                     password |-> hash_password(AdminPassword),
                     role |-> "admin"]}

Init ==
    /\ users = create_default_admin({})
    /\ nextUserId = 2
    /\ attendance = {}
    /\ nextAttId = 1
    /\ tokens = {}
    /\ now = [day |-> 1, tod |-> FirstTimeOfDay]
    /\ inflight = EmptyBag
    /\ registering = EmptyBag
    /\ deleting = EmptyBag
    /\ resp = NoResponse

-----------------------------------------------------------------------------
(* POST /register *)

\* the comparison without .lower()
IsAdminRole_CaseSensitive(role) == role = Str_admin

IsAdminRole(role) == Lower(role) = Str_admin

\* the requests the workers have taken up and not answered yet
Pending ==
    BagCardinality(inflight) + BagCardinality(registering)
    + BagCardinality(deleting)

\* a new_user object that db.commit() has not inserted yet has no id
Inserted(obj) == "id" \in DOMAIN obj

AwaitingInsert ==
    LET S == {obj \in BagToSet(registering) : ~Inserted(obj)}
    IN BagCardinality([obj \in S |-> CopiesIn(obj, registering)])

\* lines 90-102: the checks, up to the construction of new_user
register(email, password, role) ==
    IF IsAdminRole(role)
    THEN [resp |-> HTTPException("register", 403,
                                 "Admin registration not allowed"),
          row |-> NoRow]
    ELSE IF UserByEmail(email) # NoRow
    THEN [resp |-> HTTPException("register", 400,
                                 "Email already registered"),
          row |-> NoRow]
    ELSE [resp |-> NoResponse,
          row |-> [email |-> email, password |-> hash_password(password),
                   role |-> "staff"]]

\* last_id bounds the ids the model hands out
Register(email, password, role, last_id) ==
    LET r == register(email, password, role)
    IN /\ IF r.row = NoRow
          THEN /\ resp' = r.resp
               /\ registering' = registering
          ELSE /\ Pending < Cardinality(Workers)
               /\ nextUserId + AwaitingInsert <= last_id
               /\ registering' = registering (+) SetToBag({r.row})
               /\ resp' = resp
       /\ UNCHANGED <<store, tokens, now, inflight, deleting>>

\* the UNIQUE index on users.email, which the database checks at the insert
UniqueEmailHolds(row) == \A u \in users : u.email # row.email

\* lines 104-105: db.add and db.commit; a failed commit ends the request
register_commit(row) ==
    IF ~UniqueEmailHolds(row)
    THEN [resp |-> InternalServerError("register"),
          rows |-> {}]
    ELSE [resp |-> NoResponse,
          rows |-> {[id |-> nextUserId, email |-> row.email,
                     password |-> row.password, role |-> row.role]}]

RegisterCommit(row) ==
    LET r == register_commit(row)
    IN /\ BagIn(row, registering)
       /\ ~Inserted(row)
       /\ registering' = (registering (-) SetToBag({row})) (+) SetToBag(r.rows)
       /\ users' = users \cup r.rows
       /\ nextUserId' = nextUserId + Cardinality(r.rows)
       /\ resp' = IF r.rows = {} THEN r.resp ELSE resp
       /\ UNCHANGED <<attendance, nextAttId, tokens, now, inflight, deleting>>

\* lines 106-108: db.refresh(new_user), which reads the row back by its
\* primary key and raises when it is gone, and the answer
register_refresh(new_user) ==
    IF \A u \in users : u.id # new_user.id
    THEN InternalServerError("register")
    ELSE Response("register", 200, None,
                  [message |-> "Staff registered successfully"])

RegisterRefresh(new_user) ==
    /\ BagIn(new_user, registering)
    /\ Inserted(new_user)
    /\ registering' = registering (-) SetToBag({new_user})
    /\ resp' = register_refresh(new_user)
    /\ UNCHANGED <<store, tokens, now, inflight, deleting>>

-----------------------------------------------------------------------------
(* POST /login *)

\* an unknown email told apart from a wrong password
login_Oracle(email, password) ==
    LET db_user == UserByEmail(email)
    IN IF db_user = NoRow
       THEN HTTPException("login", 404, "User not found")
       ELSE IF ~verify_password(password, db_user.password)
       THEN HTTPException("login", 400, "Invalid credentials")
       ELSE Response("login", 200, None,
                     [access_token |-> create_access_token(
                          [sub |-> db_user.email, role |-> db_user.role]),
                      token_type |-> "bearer",
                      role |-> db_user.role])

login(email, password) ==
    LET db_user == UserByEmail(email)
    IN IF db_user = NoRow
       THEN HTTPException("login", 400, "Invalid credentials")
       ELSE IF ~verify_password(password, db_user.password)
       THEN HTTPException("login", 400, "Invalid credentials")
       ELSE Response("login", 200, None,
                     [access_token |-> create_access_token(
                          [sub |-> db_user.email, role |-> db_user.role]),
                      token_type |-> "bearer",
                      role |-> db_user.role])

Login(email, password) ==
    LET r == login(email, password)
    IN /\ resp' = r
       /\ tokens' = IF r.code = 200 THEN tokens \cup {r.body.access_token}
                    ELSE tokens
       /\ UNCHANGED <<store, now, inflight,
                    registering, deleting>>

-----------------------------------------------------------------------------
(* GET /me *)

get_me(cred) ==
    LET current_user == get_current_user(cred)
    IN IF current_user = NoRow THEN credentials_exception("get_me")
       ELSE Response("get_me", 200, None,
                     [role |-> current_user.role])

GetMe(cred) ==
    /\ resp' = get_me(cred)
    /\ UNCHANGED <<store, tokens, now, inflight,
                    registering, deleting>>

-----------------------------------------------------------------------------
(* POST /mark-attendance *)

\* an arrival after the late boundary stored as Absent
StatusAt_Absent(tod) == IF tod > late_time THEN "Absent" ELSE "Present"

\* the late boundary compared with >=
StatusAt_NonStrict(tod) == IF tod >= late_time THEN "Late" ELSE "Present"

StatusAt(tod) == IF tod > late_time THEN "Late" ELSE "Present"

WindowClosed(tod) == tod > close_time

\* the existence query filtering on check_in == now instead of date == today
ExistingToday_SameInstant(user_id, day) ==
    First({a \in attendance : a.user_id = user_id /\ a.check_in = now})

\* the existence query skipped once the window has closed, as when the
\* window check comes first
ExistingToday_AfterWindow(user_id, day) ==
    IF WindowClosed(now.tod) THEN NoRow
    ELSE First({a \in attendance : a.user_id = user_id /\ a.date = day})

ExistingToday(user_id, day) ==
    First({a \in attendance : a.user_id = user_id /\ a.date = day})

\* lines 183-223: every check, up to the construction of the new row
mark_attendance(cred, host) ==
    LET current_user == get_current_user(cred)
        op == "mark_attendance"
    IN IF current_user = NoRow
       THEN [resp |-> credentials_exception(op), row |-> NoRow]
       ELSE IF ~InNetwork(host, allowed_network)
       THEN [resp |-> HTTPException(op, 403,
                          "Attendance allowed only on school network"),
             row |-> NoRow]
       ELSE IF NotStaff(current_user)
       THEN [resp |-> HTTPException(op, 403,
                          "Only staff can mark attendance"),
             row |-> NoRow]
       ELSE IF ExistingToday(current_user.id, now.day) # NoRow
       THEN [resp |-> HTTPException(op, 400,
                          "Already marked today"),
             row |-> NoRow]
       ELSE IF WindowClosed(now.tod)
       THEN [resp |-> HTTPException(op, 403,
                          "Attendance closed for today"),
             row |-> NoRow]
       ELSE [resp |-> NoResponse,
             row |-> [user_id |-> current_user.id, date |-> now.day,
                      check_in |-> now, status |-> StatusAt(now.tod)]]

MarkAttendance(cred, host) ==
    LET r == mark_attendance(cred, host)
    IN /\ IF r.row = NoRow
          THEN /\ resp' = r.resp
               /\ inflight' = inflight
          ELSE /\ Pending < Cardinality(Workers)
               /\ nextAttId + BagCardinality(inflight) <= MaxAttId
               /\ inflight' = inflight (+) SetToBag({r.row})
               /\ resp' = resp
       /\ UNCHANGED <<store, tokens, now,
                    registering, deleting>>

\* the foreign key declared but not enforced
ForeignKeyHolds_Unenforced(row) == TRUE

\* the FOREIGN KEY attendance.user_id -> users.id, which the database
\* (MySQL/InnoDB, src/app/database.py) checks at the insert
ForeignKeyHolds(row) == \E u \in users : u.id = row.user_id

\* lines 225-228: db.add, db.commit and the answer
mark_attendance_commit(row) ==
    IF ~ForeignKeyHolds(row)
    THEN [resp |-> InternalServerError("mark_attendance"),
          rows |-> {}]
    ELSE [resp |-> Response("mark_attendance", 200, None,
                            [message |-> "Attendance marked",
                             status |-> row.status]),
          rows |-> {[id |-> nextAttId, user_id |-> row.user_id,
                     date |-> row.date, check_in |-> row.check_in,
                     status |-> row.status]}]

MarkAttendanceCommit(row) ==
    LET r == mark_attendance_commit(row)
    IN /\ BagIn(row, inflight)
       /\ inflight' = inflight (-) SetToBag({row})
       /\ attendance' = attendance \cup r.rows
       /\ nextAttId' = nextAttId + Cardinality(r.rows)
       /\ resp' = r.resp
       /\ UNCHANGED <<users, nextUserId, tokens, now,
                    registering, deleting>>

-----------------------------------------------------------------------------
(* The clock *)

\* the next time of day, or the next morning
Tick ==
    /\ \/ /\ \E t \in TimesOfDay : t > now.tod
          /\ now' = [now EXCEPT !.tod =
                        CHOOSE t \in TimesOfDay :
                            /\ t > now.tod
                            /\ \A x \in TimesOfDay : x > now.tod => t <= x]
       \/ /\ \A t \in TimesOfDay : t <= now.tod
          /\ now.day < MaxDay
          /\ now' = [day |-> now.day + 1, tod |-> FirstTimeOfDay]
    /\ UNCHANGED <<store, tokens, inflight, resp,
                    registering, deleting>>

-----------------------------------------------------------------------------
(* GET /absentees *)

absentees(day) ==
    LET attended_ids == {a.user_id : a \in RecordsOn(day)}
    IN OrderById({u \in StaffUsers : u.id \notin attended_ids})

get_absentees(cred) ==
    LET current_user == get_current_user(cred)
        op == "get_absentees"
    IN IF current_user = NoRow THEN credentials_exception(op)
       ELSE IF NotAdmin(current_user)
       THEN HTTPException(op, 403, "Admin access required")
       ELSE Response(op, 200, None,
                     [date |-> now.day,
                      absentees |-> [i \in DOMAIN absentees(now.day) |->
                                       [id |-> absentees(now.day)[i].id,
                                        email |-> absentees(now.day)[i].email]]])

GetAbsentees(cred) ==
    /\ resp' = get_absentees(cred)
    /\ UNCHANGED <<store, tokens, now, inflight,
                    registering, deleting>>

-----------------------------------------------------------------------------
(* GET /my-attendance *)

my_attendance(cred) ==
    LET current_user == get_current_user(cred)
        op == "my_attendance"
    IN IF current_user = NoRow THEN credentials_exception(op)
       ELSE IF NotStaff(current_user)
       THEN HTTPException(op, 403, "Staff access required")
       ELSE LET records == OrderByDateDesc(RecordsOf(current_user.id))
            IN Response(op, 200, None,
                        [items |-> [i \in DOMAIN records |->
                           [date |-> records[i].date,
                            check_in |-> records[i].check_in.tod,
                            status |-> records[i].status]]])

MyAttendance(cred) ==
    /\ resp' = my_attendance(cred)
    /\ UNCHANGED <<store, tokens, now, inflight,
                    registering, deleting>>

-----------------------------------------------------------------------------
(* GET /daily-summary *)

summary(day) ==
    LET total == Cardinality(StaffUsers)
        present == Cardinality({a \in RecordsOn(day) : a.status = "Present"})
        late == Cardinality({a \in RecordsOn(day) : a.status = "Late"})
    IN [total_staff |-> total, present_count |-> present,
        late_count |-> late, absent_count |-> total - present - late]

daily_summary(cred) ==
    LET current_user == get_current_user(cred)
        op == "daily_summary"
    IN IF current_user = NoRow THEN credentials_exception(op)
       ELSE IF NotAdmin(current_user)
       THEN HTTPException(op, 403, "Admins-only")
       ELSE Response(op, 200, None, summary(now.day))

DailySummary(cred) ==
    /\ resp' = daily_summary(cred)
    /\ UNCHANGED <<store, tokens, now, inflight,
                    registering, deleting>>

-----------------------------------------------------------------------------
(* GET /all-staff *)

get_all_staff(cred) ==
    LET current_user == get_current_user(cred)
        op == "get_all_staff"
    IN IF current_user = NoRow THEN credentials_exception(op)
       ELSE IF NotAdmin(current_user)
       THEN HTTPException(op, 403, "Admins-only")
       ELSE LET staff == OrderById(StaffUsers)
            IN Response(op, 200, None,
                        [items |-> [i \in DOMAIN staff |->
                           [id |-> staff[i].id, email |-> staff[i].email]]])

GetAllStaff(cred) ==
    /\ resp' = get_all_staff(cred)
    /\ UNCHANGED <<store, tokens, now, inflight,
                    registering, deleting>>

-----------------------------------------------------------------------------
(* GET /attendance-percentage *)

\* Natural numbers beyond the machine word, as sequences of limbs with the
\* least significant limb first and no leading zero limb
LimbBits == 15

LimbBase == 2 ^ LimbBits

Limbs(n) == IF n = 0 THEN <<>> ELSE <<n>>

\* x * k + carry, for a small k
RECURSIVE MulSmall(_, _, _)
MulSmall(x, k, carry) ==
    IF x = <<>> THEN Limbs(carry)
    ELSE LET v == Head(x) * k + carry
         IN <<v % LimbBase>> \o MulSmall(Tail(x), k, v \div LimbBase)

\* x * 2^n
ShiftLeft(x, n) ==
    IF x = <<>> THEN <<>>
    ELSE [i \in 1..(n \div LimbBits) |-> 0]
             \o MulSmall(x, 2 ^ (n % LimbBits), 0)

\* quotient and remainder of x by a small d
RECURSIVE DivSmall(_, _)
DivSmall(x, d) ==
    IF x = <<>> THEN [quot |-> <<>>, rem |-> 0]
    ELSE LET hi == DivSmall(Tail(x), d)
             v == hi.rem * LimbBase + Head(x)
             q == v \div d
         IN [quot |-> IF q = 0 /\ hi.quot = <<>> THEN <<>>
                      ELSE <<q>> \o hi.quot,
             rem |-> v % d]

\* -1, 0 or 1 as x is below, equal to or above y
RECURSIVE Compare(_, _)
Compare(x, y) ==
    IF Len(x) # Len(y) THEN (IF Len(x) < Len(y) THEN -1 ELSE 1)
    ELSE IF x = <<>> THEN 0
    ELSE LET hi == Compare(Tail(x), Tail(y))
         IN IF hi # 0 THEN hi
            ELSE IF Head(x) < Head(y) THEN -1
            ELSE IF Head(x) > Head(y) THEN 1
            ELSE 0

\* x / d rounded to the nearest natural, a tie to the even one: the rounding
\* of every float operation
RoundedDiv(x, d) ==
    LET qr == DivSmall(x, d)
        odd == qr.quot # <<>> /\ Head(qr.quot) % 2 = 1
    IN IF 2 * qr.rem > d \/ (2 * qr.rem = d /\ odd)
       THEN MulSmall(qr.quot, 1, 1)
       ELSE qr.quot

\* the least j with a * 2^j >= t
RECURSIVE Normalise(_, _)
Normalise(a, t) == IF a >= t THEN 0 ELSE 1 + Normalise(2 * a, t)

\* the double (a / t) * 100 for 0 < a < t, as [mant, shift, exp]: the value
\* mant * 2^shift / 2^exp, with a mantissa of 53 bits after either operation
FloatRatioTimes100(a, t) ==
    LET exp == 52 + Normalise(a, t)
        quotient == RoundedDiv(ShiftLeft(Limbs(a), exp), t)
        product == MulSmall(quotient, 100, 0)
        shift == IF Compare(product, ShiftLeft(Limbs(1), 59)) < 0
                 THEN 6 ELSE 7
    IN [mant |-> RoundedDiv(product, 2 ^ shift), shift |-> shift,
        exp |-> exp]

\* round((a / t) * 100, 2) in hundredths, 0 <= a <= t < LimbBase: the
\* hundredth nearest to the double; when a / t * 100 lies midway between two
\* hundredths, the side the double fell on decides, and the even neighbour
\* if it is exactly midway
round_percent(a, t) ==
    LET q == (a * 10000) \div t
        r == (a * 10000) % t
    IN IF 2 * r > t THEN q + 1
       ELSE IF 2 * r < t THEN q
       ELSE LET x == FloatRatioTimes100(a, t)
                side == Compare(
                    MulSmall(ShiftLeft(x.mant, x.shift), 200, 0),
                    ShiftLeft(Limbs(2 * q + 1), x.exp))
            IN IF side > 0 THEN q + 1
               ELSE IF side < 0 THEN q
               ELSE IF q % 2 = 0 THEN q ELSE q + 1

\* the records query of lines 407-409 without its user filter
percentage_AllRecords(user_id) ==
    LET records == attendance
        total_days == Cardinality(records)
        present_days == Cardinality({r \in records : r.status = "Present"})
        late_days == Cardinality({r \in records : r.status = "Late"})
        attended_days == present_days + late_days
    IN [present_days |-> present_days,
        late_days |-> late_days,
        attendance_percentage |->
            IF total_days > 0
            THEN round_percent(attended_days, total_days)
            ELSE 0]

\* lines 411-427, the percentage in hundredths of a percent
percentage(user_id) ==
    LET records == RecordsOf(user_id)
        total_days == Cardinality(records)
        present_days == Cardinality({r \in records : r.status = "Present"})
        late_days == Cardinality({r \in records : r.status = "Late"})
        attended_days == present_days + late_days
    IN [present_days |-> present_days,
        late_days |-> late_days,
        attendance_percentage |->
            IF total_days > 0
            THEN round_percent(attended_days, total_days)
            ELSE 0]

attendance_percentage(cred) ==
    LET current_user == get_current_user(cred)
        op == "attendance_percentage"
    IN IF current_user = NoRow THEN credentials_exception(op)
       ELSE IF NotAdmin(current_user)
       THEN HTTPException(op, 403, "Admins only")
       ELSE LET staff == OrderById(StaffUsers)
            IN Response(op, 200, None,
                        [items |-> [i \in DOMAIN staff |->
                                      percentage(staff[i].id)]])

AttendancePercentage(cred) ==
    /\ resp' = attendance_percentage(cred)
    /\ UNCHANGED <<store, tokens, now, inflight,
                    registering, deleting>>

-----------------------------------------------------------------------------
(* DELETE /delete-staff/{staff_id} *)

\* the query of lines 371-374 without its role filter
delete_staff_AnyRole(cred, staff_id) ==
    LET current_user == get_current_user(cred)
        op == "delete_staff"
    IN IF current_user = NoRow
       THEN [resp |-> credentials_exception(op), row |-> NoRow]
       ELSE IF NotAdmin(current_user)
       THEN [resp |-> HTTPException(op, 403, "Admins only"),
             row |-> NoRow]
       ELSE LET staff == First({u \in users : u.id = staff_id})
            IN IF staff = NoRow
               THEN [resp |-> HTTPException(op, 404,
                                            "Staff not found"),
                     row |-> NoRow]
               ELSE [resp |-> NoResponse, row |-> staff]

\* lines 368-377: the role check and the lookup of the staff user
delete_staff(cred, staff_id) ==
    LET current_user == get_current_user(cred)
        op == "delete_staff"
    IN IF current_user = NoRow
       THEN [resp |-> credentials_exception(op), row |-> NoRow]
       ELSE IF NotAdmin(current_user)
       THEN [resp |-> HTTPException(op, 403, "Admins only"),
             row |-> NoRow]
       ELSE LET staff == First({u \in users :
                                  u.id = staff_id /\ u.role = "staff"})
            IN IF staff = NoRow
               THEN [resp |-> HTTPException(op, 404,
                                            "Staff not found"),
                     row |-> NoRow]
               ELSE [resp |-> NoResponse, row |-> staff]

DeleteStaff(cred, staff_id) ==
    LET r == delete_staff(cred, staff_id)
    IN /\ IF r.row = NoRow
          THEN /\ resp' = r.resp
               /\ deleting' = deleting
          ELSE /\ Pending < Cardinality(Workers)
               /\ deleting' = deleting (+) SetToBag({r.row})
               /\ resp' = resp
       /\ UNCHANGED <<store, tokens, now, inflight, registering>>

\* lines 380-388: the two deletes, which match the rows still there, the
\* commit and the answer
delete_staff_commit(staff) ==
    [resp |-> Response("delete_staff", 200, None,
                       [message |-> "Staff deleted successfully"]),
     gone |-> {u \in users : u.id = staff.id}]

DeleteStaffCommit(staff) ==
    LET r == delete_staff_commit(staff)
    IN /\ BagIn(staff, deleting)
       /\ deleting' = deleting (-) SetToBag({staff})
       /\ attendance' = {a \in attendance : a.user_id # staff.id}
       /\ users' = users \ r.gone
       /\ resp' = r.resp
       /\ UNCHANGED <<nextUserId, nextAttId, tokens, now, inflight,
                      registering>>

-----------------------------------------------------------------------------
(* POST /forgot-password *)

\* the values secrets.token_urlsafe(32) may return
ResetTokens == {"K1", "K2"}

\* the loaded object after `obj.<name> = value`
SetAttr(obj, name, value) ==
    [c \in DOMAIN obj \cup {name} |-> IF c = name THEN value ELSE obj[c]]

forgot_password(email, token) ==
    LET user == UserByEmail(email)
    IN IF user = NoRow
       THEN [resp |-> HTTPException("forgot_password", 404,
                                    "Email not found"),
             old |-> {}, new |-> {}]
       ELSE [resp |-> Response("forgot_password", 200, None,
                               [message |-> "Reset token generated",
                                reset_token |-> token]),
             old |-> {user},
             new |-> {Flush(SetAttr(user, "reset_token", token))}]

ForgotPassword(email) ==
    \E token \in ResetTokens :
        LET r == forgot_password(email, token)
        IN /\ resp' = r.resp
           /\ users' = (users \ r.old) \cup r.new
           /\ UNCHANGED <<nextUserId, attendance, nextAttId, tokens, now,
                          inflight,
                    registering, deleting>>

-----------------------------------------------------------------------------
(* POST /reset-password *)

\* whether `models.User.<name>` is an attribute of the mapped class
HasColumn(name) == name \in UserColumns

reset_password(token, new_password) ==
    IF ~HasColumn("reset_token")
    THEN [resp |-> InternalServerError("reset_password"),
          old |-> {}, new |-> {}]
    ELSE LET user == First({u \in users : StoredResetToken(u) = token})
         IN IF user = NoRow
            THEN [resp |-> HTTPException("reset_password", 400,
                                         "Invalid token"),
                  old |-> {}, new |-> {}]
            ELSE [resp |-> Response("reset_password", 200, None,
                                    [message |->
                                       "Password reset successful"]),
                  old |-> {user},
                  new |-> {Flush(SetAttr(
                              SetAttr(user, "password",
                                      hash_password(new_password)),
                              "reset_token", None))}]

ResetPassword(token, new_password) ==
    LET r == reset_password(token, new_password)
    IN /\ resp' = r.resp
       /\ users' = (users \ r.old) \cup r.new
       /\ UNCHANGED <<nextUserId, attendance, nextAttId, tokens, now, inflight,
                    registering, deleting>>

-----------------------------------------------------------------------------
(* The service *)

UserIdInputs == 1..MaxUserId

Next ==
    \/ \E e \in Emails, p \in RegisterPasswords, r \in RoleInputs :
          Register(e, p, r, MaxUserId)
    \/ \E row \in BagToSet(registering) : RegisterCommit(row)
    \/ \E row \in BagToSet(registering) : RegisterRefresh(row)
    \/ \E e \in Emails, p \in Passwords : Login(e, p)
    \/ \E c \in Credentials : GetMe(c)
    \/ \E c \in Credentials, h \in Hosts : MarkAttendance(c, h)
    \/ \E row \in BagToSet(inflight) : MarkAttendanceCommit(row)
    \/ \E c \in Credentials : GetAbsentees(c)
    \/ \E c \in Credentials : MyAttendance(c)
    \/ \E c \in Credentials : DailySummary(c)
    \/ \E c \in Credentials : GetAllStaff(c)
    \/ \E c \in Credentials : AttendancePercentage(c)
    \/ \E c \in Credentials, id \in UserIdInputs : DeleteStaff(c, id)
    \/ \E staff \in BagToSet(deleting) : DeleteStaffCommit(staff)
    \/ \E e \in Emails : ForgotPassword(e)
    \/ \E t \in ResetTokens, p \in Passwords : ResetPassword(t, p)
    \/ Tick

Spec == Init /\ [][Next]_vars

-----------------------------------------------------------------------------
(* The service when every bearer request presents a token login issued,   *)
(* without the two password-reset endpoints                               *)

NextIssuedTokens ==
    \/ \E e \in Emails, p \in RegisterPasswords, r \in RoleInputs :
          Register(e, p, r, MaxUserId)
    \/ \E row \in BagToSet(registering) : RegisterCommit(row)
    \/ \E row \in BagToSet(registering) : RegisterRefresh(row)
    \/ \E e \in Emails, p \in Passwords : Login(e, p)
    \/ \E c \in tokens : GetMe(c)
    \/ \E c \in tokens, h \in Hosts : MarkAttendance(c, h)
    \/ \E row \in BagToSet(inflight) : MarkAttendanceCommit(row)
    \/ \E c \in tokens : GetAbsentees(c)
    \/ \E c \in tokens : MyAttendance(c)
    \/ \E c \in tokens : DailySummary(c)
    \/ \E c \in tokens : GetAllStaff(c)
    \/ \E c \in tokens : AttendancePercentage(c)
    \/ \E c \in tokens, id \in UserIdInputs : DeleteStaff(c, id)
    \/ \E staff \in BagToSet(deleting) : DeleteStaffCommit(staff)
    \/ Tick

SpecIssuedTokens == Init /\ [][NextIssuedTokens]_vars

-----------------------------------------------------------------------------
(* The bearer-protected endpoints when requests also present tokens that   *)
(* get_current_user rejects, within one day                                *)

NextRejectedTokens ==
    \/ \E e \in Emails, p \in RegisterPasswords, r \in RoleInputs :
          Register(e, p, r, MaxUserId)
    \/ \E row \in BagToSet(registering) : RegisterCommit(row)
    \/ \E row \in BagToSet(registering) : RegisterRefresh(row)
    \/ \E e \in Emails, p \in Passwords : Login(e, p)
    \/ \E c \in Credentials : GetMe(c)
    \/ \E c \in Credentials, h \in Hosts : MarkAttendance(c, h)
    \/ \E row \in BagToSet(inflight) : MarkAttendanceCommit(row)
    \/ \E c \in Credentials : GetAbsentees(c)
    \/ \E c \in Credentials : MyAttendance(c)
    \/ \E c \in Credentials : DailySummary(c)
    \/ \E c \in Credentials : GetAllStaff(c)
    \/ \E c \in Credentials : AttendancePercentage(c)
    \/ \E c \in Credentials, id \in UserIdInputs : DeleteStaff(c, id)
    \/ \E staff \in BagToSet(deleting) : DeleteStaffCommit(staff)
    \/ (now.tod <= close_time /\ Tick)

SpecRejectedTokens == Init /\ [][NextRejectedTokens]_vars

-----------------------------------------------------------------------------
(* The staff registry during one check-in window: the requests that write  *)
(* the store and the percentage report, with the two steps of register     *)
(* apart, a second staff email, and the clock running from 07:30:00 to     *)
(* 08:00:00 of one day                                                     *)

RegistryIdInputs == 1..(MaxRegistered + 1)

\* one role that registers and one that is refused
RegistryRoleInputs == {Str_staff, Str_admin}

NextRegistry ==
    \/ \E e \in RegistryEmails, p \in RegisterPasswords,
          r \in RegistryRoleInputs :
          Register(e, p, r, MaxRegistered + 1)
    \/ \E row \in BagToSet(registering) : RegisterCommit(row)
    \/ \E row \in BagToSet(registering) : RegisterRefresh(row)
    \/ \E e \in RegistryEmails, p \in Passwords : Login(e, p)
    \/ \E c \in tokens : MarkAttendance(c, Host_127_0_0_1)
    \/ \E row \in BagToSet(inflight) : MarkAttendanceCommit(row)
    \/ \E c \in tokens : AttendancePercentage(c)
    \/ \E c \in tokens, id \in RegistryIdInputs : DeleteStaff(c, id)
    \/ \E staff \in BagToSet(deleting) : DeleteStaffCommit(staff)
    \/ (now.tod < close_time /\ Tick)

SpecRegistry == Init /\ [][NextRegistry]_vars

-----------------------------------------------------------------------------
(* Properties of the attendance store *)

\* C1: in every reachable state there is at most one attendance record for
\* each user and calendar date, also when two mark-attendance requests of
\* one user interleave between the existence check and the commit.
C1_OneRecordPerUserPerDay ==
    \A a \in attendance, b \in attendance :
        (a.user_id = b.user_id /\ a.date = b.date) => a = b

\* C2: when a mark-attendance request commits for a user and date that
\* already have a record (it passed the existence check before the other
\* writer committed), the commit fails, the request is answered 400
\* "Already marked today", and no record is added.
C2_SecondWriterAlreadyMarked ==
    [][\A row \in BagToSet(inflight) :
          (/\ MarkAttendanceCommit(row)
           /\ \E a \in attendance :
                 a.user_id = row.user_id /\ a.date = row.date)
          => /\ resp'.code = 400
             /\ resp'.detail = "Already marked today"
             /\ attendance' = attendance]_vars

\* C6: in every reachable state the absent_count of daily-summary for the
\* current date equals the number of entries absentees returns for it, and
\* is never negative.
C6_AbsentCountIsAbsenteeCount ==
    /\ summary(now.day).absent_count = Len(absentees(now.day))
    /\ summary(now.day).absent_count >= 0

-----------------------------------------------------------------------------
(* Properties of the password-reset flow *)

\* C7: a reset-password call that presents the token the preceding
\* forgot-password response returned succeeds: a user's credential becomes
\* the hash of the new password and the stored token is cleared; once a
\* reset-password call has succeeded, a call with a token no user stores is
\* answered 400 "Invalid token" and changes no credential.
C7_ResetRoundTrip ==
    [][\A t \in ResetTokens, p \in Passwords :
          /\ (/\ ResetPassword(t, p)
              /\ resp.op = "forgot_password"
              /\ resp.code = 200
              /\ resp.body.reset_token = t)
             => /\ resp'.code = 200
                /\ \E u \in users' :
                      /\ u.password = hash_password(p)
                      /\ StoredResetToken(u) = None
          /\ (/\ ResetPassword(t, p)
              /\ resp.op = "reset_password"
              /\ resp.code = 200
              /\ \A u \in users : StoredResetToken(u) # t)
             => /\ resp'.code = 400
                /\ resp'.detail = "Invalid token"
                /\ users' = users]_vars

\* C8: a user's stored reset_token is null when the user is created, becomes
\* the returned token when forgot-password succeeds for the user, and
\* changes in no step other than forgot-password (set) and reset-password
\* (cleared).
C8_ResetTokenLifecycle ==
    [][/\ \A v \in users' :
             (\A u \in users : u.id # v.id) => StoredResetToken(v) = None
       /\ \A e \in Emails :
             (ForgotPassword(e) /\ resp'.code = 200)
             => \E v \in users' :
                   /\ v.email = e
                   /\ StoredResetToken(v) # None
                   /\ StoredResetToken(v) = resp'.body.reset_token
       /\ \A u \in users, v \in users' :
             (u.id = v.id /\ StoredResetToken(u) # StoredResetToken(v))
             => IF StoredResetToken(v) # None
                THEN \E e \in Emails : ForgotPassword(e)
                ELSE \E t \in ResetTokens, p \in Passwords :
                        ResetPassword(t, p) /\ resp'.code = 200]_vars

-----------------------------------------------------------------------------
(* Properties of mark-attendance *)

T_07_30_00 == 7 * 3600 + 30 * 60
T_08_00_00 == 8 * 3600

\* what every step of the first part of a mark-attendance request does: it
\* answers, or it leaves a row to insert
MarkAnsweredOrPending == resp'.op = "mark_attendance" \/ inflight' # inflight

\* C3: a staff user without a record today who checks in from the approved
\* address at time of day t is rejected 403 "Attendance closed for today"
\* without a record when t > 08:00:00; otherwise a record is made with
\* status Late when t > 07:30:00 and Present when t <= 07:30:00 (stored at
\* the commit, for a user who still exists then), and the status answered
\* is the status stored.
C3_CheckInClassification ==
    [][/\ \A c \in tokens :
             LET u == get_current_user(c)
                 t == now.tod
             IN (/\ MarkAnsweredOrPending
                 /\ u # NoRow
                 /\ u.role = "staff"
                 /\ \A a \in attendance :
                       ~(a.user_id = u.id /\ a.date = now.day)
                 /\ MarkAttendance(c, Host_127_0_0_1))
                => IF t > T_08_00_00
                   THEN /\ resp'.code = 403
                        /\ resp'.detail = "Attendance closed for today"
                        /\ attendance' = attendance
                        /\ inflight' = inflight
                   ELSE inflight' = inflight (+) SetToBag({
                            [user_id |-> u.id, date |-> now.day,
                             check_in |-> now,
                             status |-> IF t > T_07_30_00 THEN "Late"
                                        ELSE "Present"]})
       /\ \A row \in BagToSet(inflight) :
             (/\ inflight' # inflight
              /\ \E u \in users : u.id = row.user_id
              /\ MarkAttendanceCommit(row))
             => \E a \in attendance' \ attendance :
                   /\ resp'.code = 200
                   /\ attendance' = attendance \cup {a}
                   /\ a.user_id = row.user_id
                   /\ a.date = row.check_in.day
                   /\ a.check_in = row.check_in
                   /\ a.check_in.tod <= T_08_00_00
                   /\ a.status = IF a.check_in.tod > T_07_30_00 THEN "Late"
                                 ELSE "Present"
                   /\ resp'.body.status = a.status]_vars

\* a check-in at exactly 08:00:00 was accepted, stored and answered as Late
\* while a check-in at exactly 07:30:00 is stored as Present
C3_Witness ==
    /\ resp.op = "mark_attendance"
    /\ resp.code = 200
    /\ resp.body.status = "Late"
    /\ \E a \in attendance :
          a.check_in.tod = T_08_00_00 /\ a.status = "Late"
    /\ \E a \in attendance :
          a.check_in.tod = T_07_30_00 /\ a.status = "Present"

\* C4: a mark-attendance request with a valid token from an address other
\* than 127.0.0.1 is answered 403 "Attendance allowed only on school
\* network" and creates no record, whatever the role, the records and the
\* time of day: never "Attendance closed for today", never accepted.
C4_LocationGateFirst ==
    [][\A c \in tokens, h \in Hosts \ {Host_127_0_0_1} :
          (/\ MarkAnsweredOrPending
           /\ get_current_user(c) # NoRow
           /\ MarkAttendance(c, h))
          => /\ resp'.code = 403
             /\ resp'.detail = "Attendance allowed only on school network"
             /\ attendance' = attendance
             /\ inflight' = inflight]_vars

\* a staff user with no record today was denied for the location after the
\* window had closed
C4_Witness ==
    /\ resp.op = "mark_attendance"
    /\ resp.detail = "Attendance allowed only on school network"
    /\ now.tod > T_08_00_00
    /\ \E u \in StaffUsers : \A a \in attendance : a.user_id # u.id
    /\ \A u \in users : NotStaff(u) => u.email \notin {t.sub : t \in tokens}

\* C5: an attendance record, once stored, keeps its fields in every step and
\* leaves the store only in a successful delete-staff of its user; a
\* mark-attendance request by a user who has a record for today is rejected
\* and leaves the store unchanged.
C5_RecordsAreImmutable ==
    [][/\ \A a \in attendance :
             \/ a \in attendance'
             \/ /\ \A b \in attendance' : b.id # a.id
                /\ \A u \in users' : u.id # a.user_id
                /\ resp'.code = 200
                /\ \E staff \in BagToSet(deleting) :
                      staff.id = a.user_id /\ DeleteStaffCommit(staff)
       /\ \A c \in tokens, h \in Hosts :
             LET u == get_current_user(c)
             IN (/\ MarkAnsweredOrPending
                 /\ u # NoRow
                 /\ \E a \in attendance :
                       a.user_id = u.id /\ a.date = now.day
                 /\ MarkAttendance(c, h))
                => /\ resp'.code \in {400, 403}
                   /\ h = Host_127_0_0_1
                      => resp'.detail = "Already marked today"
                   /\ UNCHANGED <<store, inflight>>]_vars

\* a later attempt of a user with a Present record from an earlier time of
\* the same day was answered "Already marked today"
C5_Witness ==
    /\ resp.op = "mark_attendance"
    /\ resp.detail = "Already marked today"
    /\ \E a \in attendance :
          /\ a.date = now.day
          /\ a.check_in.tod < now.tod
          /\ a.status = "Present"

-----------------------------------------------------------------------------
(* Properties of roles *)

\* "admin" in any letter case
IsAdminAnyCase(role) ==
    /\ Len(role) = 5
    /\ role[1] \in {"a", "A"}
    /\ role[2] \in {"d", "D"}
    /\ role[3] \in {"m", "M"}
    /\ role[4] \in {"i", "I"}
    /\ role[5] \in {"n", "N"}

\* the role values of a request that spell "admin" in some letter case
AdminRoleInputs == {r \in RoleInputs : IsAdminAnyCase(r)}

Admins(rows) == {u.id : u \in {v \in rows : v.role = "admin"}}

\* C9: a register request whose role is "admin" in any letter case is
\* answered 403 and creates no user; every user a step creates has role
\* "staff"; no step changes the role of an existing user; the set of admin
\* users never grows.
C9_NoAdminByRegistration ==
    [][/\ resp'.op = "register"
          => \A e \in Emails, p \in RegisterPasswords, r \in AdminRoleInputs :
                Register(e, p, r, MaxUserId)
                => /\ resp'.code = 403
                   /\ users' = users
                   /\ registering' = registering
       /\ \/ users' = users
          \/ /\ \A v \in users' :
                   (\A u \in users : u.id # v.id) => v.role = "staff"
             /\ \A u \in users, v \in users' :
                   u.id = v.id => v.role = u.role
             /\ Admins(users') \subseteq Admins(users)]_vars

\* a registration asking for an admin role was refused while a staff user,
\* registered earlier, exists beside the one default admin
C9_Witness ==
    /\ resp.op = "register"
    /\ resp.code = 403
    /\ StaffUsers # {}
    /\ Admins(users) = {1}

\* the operations behind Depends(get_current_user)
BearerOps == {"get_me", "mark_attendance", "get_absentees", "my_attendance",
              "daily_summary", "get_all_staff", "delete_staff",
              "attendance_percentage"}

\* the request of credential c that answers as operation op
BearerRequest(op, c) ==
    CASE op = "get_me" -> GetMe(c)
      [] op = "mark_attendance" -> \E h \in Hosts : MarkAttendance(c, h)
      [] op = "get_absentees" -> GetAbsentees(c)
      [] op = "my_attendance" -> MyAttendance(c)
      [] op = "daily_summary" -> DailySummary(c)
      [] op = "get_all_staff" -> GetAllStaff(c)
      [] op = "attendance_percentage" -> AttendancePercentage(c)
      [] op = "delete_staff" -> \E id \in UserIdInputs : DeleteStaff(c, id)
      [] OTHER -> FALSE

\* the role the handler of a bearer operation asks for (lines 194, 238, 260,
\* 314, 346, 368, 396); get_me asks for none
GatedOps == BearerOps \ {"get_me"}

RequiredRole(op) ==
    IF op \in {"mark_attendance", "my_attendance"} THEN "staff" ELSE "admin"

\* C10: with a valid token, mark-attendance and my-attendance by a user
\* whose role is not staff, and absentees, daily-summary, all-staff,
\* delete-staff and attendance-percentage by a user whose role is not admin,
\* are answered 403 and change no stored state; an attendance record is
\* only ever created for a staff user, and a user only ever disappears at
\* the commit of a delete-staff request, which only an admin gets past the
\* role check.
C10_RoleGating ==
    [][/\ resp'.op \in GatedOps
          => \A c \in tokens :
                LET u == get_current_user(c)
                IN (/\ u # NoRow
                    /\ u.role # RequiredRole(resp'.op)
                    /\ BearerRequest(resp'.op, c))
                   => /\ resp'.code = 403
                      /\ UNCHANGED <<store, inflight, deleting>>
       /\ \A r \in BagToSet(inflight') :
             BagIn(r, inflight) \/
                \E u \in users : u.id = r.user_id /\ u.role = "staff"
       /\ \A a \in attendance' \ attendance :
             \E u \in users : u.id = a.user_id /\ u.role = "staff"
       /\ deleting' # deleting
          => \/ \E staff \in BagToSet(deleting) : DeleteStaffCommit(staff)
             \/ \E c \in tokens, id \in UserIdInputs :
                   /\ get_current_user(c) # NoRow
                   /\ get_current_user(c).role = "admin"
                   /\ DeleteStaff(c, id)
       /\ \A u \in users :
             (\A v \in users' : v.id # u.id)
             => \E staff \in BagToSet(deleting) :
                   staff.id = u.id /\ DeleteStaffCommit(staff)]_vars

\* a staff user who asked to delete a user was answered 403 and the users
\* are all still there
C10_Witness ==
    /\ resp.op = "delete_staff"
    /\ resp.code = 403
    /\ resp.detail = "Admins only"
    /\ StaffUsers # {}
    /\ Cardinality(users) = nextUserId - 1

-----------------------------------------------------------------------------
(* Properties of authentication *)

Unauthenticated ==
    /\ resp'.code = 401
    /\ resp'.detail = "Could not validate credentials"
    /\ UNCHANGED <<store, tokens, inflight, registering, deleting>>

\* what a bearer request with credential c leaves behind when it passes its
\* checks without answering yet
PassedChecks(c) ==
    \/ /\ inflight' # inflight
       /\ \E h \in Hosts : MarkAttendance(c, h)
    \/ /\ deleting' # deleting
       /\ \E id \in UserIdInputs : DeleteStaff(c, id)

\* C11: on every bearer-protected endpoint a token jwt.decode rejects (bad
\* signature, expired, malformed) and a token without a subject claim are
\* answered 401 "Could not validate credentials" (never the 403 of a role,
\* location or window decision), and the request changes no stored state and
\* leaves no row to insert.
C11_InvalidTokenUnauthenticated ==
    [][\/ Unauthenticated
       \/ \A c \in BadCredentials :
             ~BearerRequest(resp'.op, c) /\ ~PassedChecks(c)]_vars

\* a mark-attendance request with a rejected token was answered 401 after
\* the window had closed, while every token handed out still names a user
C11_Witness ==
    /\ resp.op = "mark_attendance"
    /\ resp.code = 401
    /\ now.tod > close_time
    /\ StaffUsers # {}
    /\ tokens # {}
    /\ \A t \in tokens : UserByEmail(t.sub) # NoRow

\* what a refused login answers
InvalidCredentials ==
    [op |-> "login", code |-> 400, detail |-> "Invalid credentials",
     body |-> NoBody]

\* C12: a login with a registered email and a wrong password and a login
\* with an unregistered email are answered with one and the same response,
\* 400 "Invalid credentials"; neither issues a token or changes state.
C12_LoginNoOracle ==
    [][\A e \in Emails, p \in Passwords :
          LET known == {u \in users : u.email = e}
          IN (/\ resp'.op = "login"
              /\ \/ known = {}
                 \/ \E u \in known : u.password # hash_password(p)
              /\ Login(e, p))
             => /\ resp' = InvalidCredentials
                /\ UNCHANGED <<store, tokens, inflight>>]_vars

\* a login was refused while every email is registered (a wrong password)
\* and a staff user, who had logged in before, holds a token
C12_Witness ==
    /\ resp = InvalidCredentials
    /\ \A e \in Emails : UserByEmail(e) # NoRow
    /\ \E t \in tokens : \E u \in StaffUsers : u.email = t.sub

-----------------------------------------------------------------------------
(* Properties of the staff registry *)

\* C13: a delete-staff request of an admin for an id that is no staff user
\* (an unknown id, or an admin's id) is answered 404 and removes no user and
\* no attendance record; for the id of a staff user it goes on to its
\* deletes, which remove that user and exactly the attendance records with
\* that user_id and leave every other user and every other record as it is.
\* No step removes an admin user.
C13_DeleteStaffFrame ==
    [][/\ (resp'.op = "delete_staff" \/ deleting' # deleting)
          => /\ \A c \in tokens :
                   LET caller == get_current_user(c)
                   IN (caller # NoRow /\ caller.role = "admin")
                      => \A id \in RegistryIdInputs :
                            DeleteStaff(c, id)
                            => /\ UNCHANGED store
                               /\ IF \E u \in users :
                                        u.id = id /\ u.role = "staff"
                                  THEN \E u \in users :
                                          /\ u.id = id
                                          /\ deleting' =
                                                 deleting (+) SetToBag({u})
                                  ELSE /\ resp'.code = 404
                                       /\ deleting' = deleting
             /\ \A staff \in BagToSet(deleting) :
                   DeleteStaffCommit(staff)
                   => /\ resp'.code = 200
                      /\ staff.role = "staff"
                      /\ users' = {u \in users : u.id # staff.id}
                      /\ attendance' =
                            {a \in attendance : a.user_id # staff.id}
       /\ \A u \in users : u.role = "admin" => u \in users']_vars

\* a staff user with a record was deleted and the record went with them,
\* while the other staff user and their record are still there
C13_Witness ==
    /\ resp.op = "delete_staff"
    /\ resp.code = 200
    /\ nextUserId = 4
    /\ Cardinality(StaffUsers) = 1
    /\ nextAttId = 3
    /\ Cardinality(attendance) = 1
    /\ \A a \in attendance : \E u \in StaffUsers : u.id = a.user_id

\* C14: no two users ever have the same email; a register request for an
\* email already stored is answered 400 "Email already registered" and
\* creates no user; and when two register requests for one new email have
\* both passed the existence check, one user is created and the request that
\* commits second is answered 400 "Email already registered", not with a raw
\* storage error.
C14_EmailUniqueness ==
    [][/\ \A u \in users', v \in users' : u.email = v.email => u = v
       /\ \A e \in RegistryEmails, p \in RegisterPasswords,
             r \in RegistryRoleInputs :
             (/\ resp'.op = "register"
              /\ ~IsAdminAnyCase(r)
              /\ \E u \in users : u.email = e
              /\ Register(e, p, r, MaxRegistered + 1))
             => /\ resp'.code = 400
                /\ resp'.detail = "Email already registered"
                /\ users' = users
       /\ \A row \in BagToSet(registering) :
             (/\ resp'.op = "register"
              /\ \E u \in users : u.email = row.email
              /\ RegisterCommit(row))
             => /\ resp'.code = 400
                /\ resp'.detail = "Email already registered"
                /\ users' = users]_vars

\* the i-th staff user in the order of the primary key
NthStaff(i) ==
    CHOOSE u \in users :
        /\ u.role = "staff"
        /\ Cardinality({v \in users : v.role = "staff" /\ v.id < u.id}) = i - 1

\* C15: attendance-percentage, called by an admin, answers 200 with one
\* entry per staff user; the entry of a staff user without records has
\* attendance_percentage 0, and the entry of a staff user with records has
\* (present_count + late_count) / total_record_count * 100, rounded to two
\* decimal places, counted over the records with that user's id only.
C15_PercentagePerStaff ==
    [][\A c \in tokens :
          LET caller == get_current_user(c)
          IN (/\ resp'.op = "attendance_percentage"
              /\ caller # NoRow
              /\ caller.role = "admin"
              /\ AttendancePercentage(c))
             => /\ resp'.code = 200
                /\ Len(resp'.body.items) =
                       Cardinality({u \in users : u.role = "staff"})
                /\ \A i \in DOMAIN resp'.body.items :
                      LET entry == resp'.body.items[i]
                          own == {a \in attendance :
                                     a.user_id = NthStaff(i).id}
                          total == Cardinality(own)
                          present == Cardinality(
                              {a \in own : a.status = "Present"})
                          late == Cardinality(
                              {a \in own : a.status = "Late"})
                          hundredths == entry.attendance_percentage
                      IN /\ entry.present_days = present
                         /\ entry.late_days = late
                         /\ IF total = 0
                            THEN hundredths = 0
                            ELSE /\ 2 * (hundredths * total
                                         - (present + late) * 10000) <= total
                                 /\ 2 * ((present + late) * 10000
                                         - hundredths * total) <= total]_vars

\* the report listed two staff users: one without records at 0, and one
\* with a Late record at 100
C15_Witness ==
    /\ resp.op = "attendance_percentage"
    /\ resp.code = 200
    /\ Len(resp.body.items) = 2
    /\ \E i \in DOMAIN resp.body.items :
          /\ resp.body.items[i].attendance_percentage = 0
          /\ RecordsOf(NthStaff(i).id) = {}
    /\ \E i \in DOMAIN resp.body.items :
          /\ resp.body.items[i].attendance_percentage = 10000
          /\ resp.body.items[i].late_days = 1
    /\ Cardinality(StaffUsers) = 2

-----------------------------------------------------------------------------
(* Properties of the order of the checks *)

\* C16: a staff user who has a record for today and calls mark-attendance
\* from the approved address after 08:00:00 is answered 400 "Already marked
\* today", not 403 "Attendance closed for today"; a request answered
\* "Attendance closed for today" comes from a staff user without a record
\* for that day.
C16_AlreadyMarkedBeforeWindow ==
    [][\A c \in tokens :
          LET u == get_current_user(c)
              marked == \E a \in attendance :
                            a.user_id = u.id /\ a.date = now.day
          IN (/\ resp'.op = "mark_attendance"
              /\ inflight' = inflight
              /\ u # NoRow
              /\ MarkAttendance(c, Host_127_0_0_1))
             => /\ (u.role = "staff" /\ marked /\ now.tod > T_08_00_00)
                   => /\ resp'.code = 400
                      /\ resp'.detail = "Already marked today"
                /\ resp'.detail = "Attendance closed for today"
                   => /\ resp'.code = 403
                      /\ u.role = "staff"
                      /\ ~marked
                      /\ now.tod > T_08_00_00]_vars

\* after 08:00:00 a staff user with a record for the day was answered
\* "Already marked today"
C16_Witness ==
    /\ resp.op = "mark_attendance"
    /\ resp.code = 400
    /\ resp.detail = "Already marked today"
    /\ now.tod > T_08_00_00
    /\ \E a \in attendance : a.date = now.day

-----------------------------------------------------------------------------
(* Properties of a repeated forgot-password *)

\* C17: when forgot-password for a known email returns K2 right after a
\* forgot-password that returned K1, the user holds K2 as the stored token;
\* a reset-password with a token other than the one just returned, which no
\* user holds, is answered 400 "Invalid token" and changes nothing, and a
\* reset-password with the token just returned succeeds; forgot-password
\* for an unknown email is answered 404 and changes no user.
C17_LaterTokenSupersedes ==
    [][/\ \A e \in Emails :
             (/\ resp'.op = "forgot_password"
              /\ ForgotPassword(e))
             => IF \E u \in users : u.email = e
                THEN (/\ resp.op = "forgot_password"
                      /\ resp.code = 200
                      /\ resp'.code = 200
                      /\ resp'.body.reset_token # resp.body.reset_token)
                     => \E u \in users' :
                           /\ u.email = e
                           /\ StoredResetToken(u) = resp'.body.reset_token
                ELSE /\ resp'.code = 404
                     /\ users' = users
       /\ \A t \in ResetTokens, p \in Passwords :
             (/\ resp'.op = "reset_password"
              /\ resp.op = "forgot_password"
              /\ resp.code = 200
              /\ ResetPassword(t, p))
             => IF t = resp.body.reset_token
                THEN /\ resp'.code = 200
                     /\ \E u \in users' : u.password = hash_password(p)
                ELSE (\A u \in users : StoredResetToken(u) # t)
                     => /\ resp'.code = 400
                        /\ resp'.detail = "Invalid token"
                        /\ users' = users]_vars

-----------------------------------------------------------------------------
(* Properties of deletion *)

\* C18: in every reachable state the user_id of every attendance record is
\* the id of a stored user with role staff, also when delete-staff of the
\* user commits between a mark-attendance request's checks and its insert:
\* no record of a deleted user is left behind.
C18_NoOrphanRecords ==
    \A a \in attendance :
        \E u \in users : u.id = a.user_id /\ u.role = "staff"

\* the insert of a request that had passed its checks failed after the staff
\* user was deleted, and nothing was stored
C18_Witness ==
    /\ resp = InternalServerError("mark_attendance")
    /\ StaffUsers = {}
    /\ nextUserId > 2
    /\ attendance = {}
    /\ inflight = EmptyBag

\* C19: once delete-staff of a user has succeeded, every later request on a
\* bearer-protected endpoint with a token issued to that user is answered
\* 401 and changes nothing, for as long as no user with the token's email
\* is stored.
C19_DeletedUserTokenRejected ==
    [][\/ Unauthenticated
       \/ \A c \in tokens :
             \/ \E u \in users : u.email = c.sub
             \/ ~BearerRequest(resp'.op, c) /\ ~PassedChecks(c)]_vars

\* a token issued to a staff user who has been deleted since was presented
\* to mark-attendance and answered 401
C19_Witness ==
    /\ resp.op = "mark_attendance"
    /\ resp.code = 401
    /\ \E t \in tokens : t.role = "staff" /\ UserByEmail(t.sub) = NoRow
    /\ nextUserId > 2
    /\ StaffUsers = {}

-----------------------------------------------------------------------------
(* Properties of the percentage report *)

\* C20: every stored attendance record has status Present or Late, so in
\* every reachable state the attendance_percentage of a staff user is
\* exactly 0 when the user has no records and exactly 100 when the user has
\* at least one; a day without a record does not lower it.
C20_PercentageZeroOrHundred ==
    /\ \A a \in attendance : a.status \in {"Present", "Late"}
    /\ \A u \in users :
          u.role = "staff"
          => percentage(u.id).attendance_percentage =
                IF \E a \in attendance : a.user_id = u.id THEN 10000 ELSE 0

\* on the second day, after the window has closed, a staff user with a
\* record for the first day and none for the second is reported at 100
C20_Witness ==
    /\ resp.op = "attendance_percentage"
    /\ resp.code = 200
    /\ now.day = 2
    /\ now.tod > close_time
    /\ \E u \in StaffUsers :
          /\ \E a \in attendance : a.user_id = u.id /\ a.date = 1
          /\ \A a \in attendance : a.user_id = u.id => a.date # now.day
          /\ percentage(u.id).attendance_percentage = 10000
          /\ resp.body.items = <<percentage(u.id)>>

====
